---- MODULE Spec2Model ----
(***************************************************************************)
(* Model of the film API (film/views.py, film/apps.py, film/models.py,     *)
(* film/management/commands/sync_films.py, film/utils.py).                 *)
(*                                                                         *)
(* State: the FilmCache table (catalog), the Film table (localFilms), the  *)
(* Comments table (comments), the Django cache (cache), the                *)
(* requests in flight (reqs), the sync command (sync) and the startup      *)
(* cache-warming step (warm).  Handlers that touch the cache and the store *)
(* in separate statements are split at those statements, so that requests  *)
(* interleave the way concurrent workers interleave them.                  *)
(***************************************************************************)
EXTENDS Integers, Sequences, FiniteSets, Bags, TLC

(***************************************************************************)
(* Bounds of the model and constants of the program.                       *)
(***************************************************************************)
\* requests handled at the same time
MaxInFlight == 2
\* Comments rows ever created
MaxComments == 2
\* records in one fetched remote sequence
MaxFeedLen == 2
\* runs of the sync command
MaxSyncs == 2

\* views.py:18  CACHE_TTL = 60 * 10
CACHE_TTL == 600
\* views.py:299  len(comment_text) > 500
MaxCommentLen == 500

FILMS_CACHE_KEY == <<"films_list">>
FilmKey(film_id) == <<"film_", film_id>>

HTTP_200_OK == 200
HTTP_201_CREATED == 201
HTTP_400_BAD_REQUEST == 400
HTTP_404_NOT_FOUND == 404
HTTP_500_INTERNAL_SERVER_ERROR == 500
HTTP_503_SERVICE_UNAVAILABLE == 503

(***************************************************************************)
(* Python values of the request body.                                      *)
(*                                                                         *)
(* A string is a sequence of one-character strings.  A comment text is     *)
(* kept run-length encoded: a sequence of runs [ws, n], n >= 1 characters  *)
(* that are all whitespace (ws) or all non-whitespace, adjacent runs       *)
(* differing in ws; so a text of 501 characters is one run.                *)
(* A 'film' value is None, an int, a float n/d or a string.                *)
(***************************************************************************)
Digits == <<"0", "1", "2", "3", "4", "5", "6", "7", "8", "9">>
IsDigit(ch) == \E i \in 1..10 : Digits[i] = ch
DigitVal(ch) == (CHOOSE i \in 1..10 : Digits[i] = ch) - 1

PyNone == [t |-> "none", n |-> 0, d |-> 1, s |-> <<>>]
PyInt(v) == [t |-> "int", n |-> v, d |-> 1, s |-> <<>>]
PyFloat(num, den) == [t |-> "float", n |-> num, d |-> den, s |-> <<>>]
PyStr(chars) == [t |-> "str", n |-> 0, d |-> 1, s |-> chars]

\* Python truthiness, `not film_id` (views.py:247)
Falsy(v) ==
    \/ v.t = "none"
    \/ v.t = "int" /\ v.n = 0
    \/ v.t = "float" /\ v.n = 0
    \/ v.t = "str" /\ v.s = <<>>

RECURSIVE DropLeadingSpaces(_)
DropLeadingSpaces(s) ==
    IF s # <<>> /\ Head(s) = " " THEN DropLeadingSpaces(Tail(s)) ELSE s

RECURSIVE DropTrailingSpaces(_)
DropTrailingSpaces(s) ==
    IF s # <<>> /\ s[Len(s)] = " "
    THEN DropTrailingSpaces(SubSeq(s, 1, Len(s) - 1))
    ELSE s

RECURSIVE DecimalValue(_)
DecimalValue(s) ==
    IF s = <<>> THEN 0
    ELSE 10 * DecimalValue(SubSeq(s, 1, Len(s) - 1)) + DigitVal(s[Len(s)])

\* int(x) of Python (views.py:257): [ok, v]; ok = FALSE is ValueError/TypeError.
\* An int is itself, a float is truncated toward zero, a string is parsed
\* after stripping whitespace (optional sign, then digits only).
PyIntOf(v) ==
    CASE v.t = "int" -> [ok |-> TRUE, v |-> v.n]
      [] v.t = "float" ->
            [ok |-> TRUE,
             v |-> IF v.n >= 0 THEN v.n \div v.d ELSE -((-v.n) \div v.d)]
      [] v.t = "str" ->
            LET body == DropTrailingSpaces(DropLeadingSpaces(v.s))
                neg == body # <<>> /\ Head(body) = "-"
                signed == body # <<>> /\ Head(body) \in {"-", "+"}
                digs == IF signed THEN Tail(body) ELSE body
            IN  IF digs # <<>> /\ \A i \in 1..Len(digs) : IsDigit(digs[i])
                THEN [ok |-> TRUE,
                      v |-> IF neg THEN -DecimalValue(digs) ELSE DecimalValue(digs)]
                ELSE [ok |-> FALSE, v |-> 0]
      [] OTHER -> [ok |-> FALSE, v |-> 0]

\* str(n) of a natural number, as a sequence of digit characters
RECURSIVE PyStrOfNat(_)
PyStrOfNat(n) ==
    IF n < 10 THEN <<Digits[n + 1]>>
    ELSE Append(PyStrOfNat(n \div 10), Digits[(n % 10) + 1])

Run(ws, n) == [ws |-> ws, n |-> n]

RECURSIVE TextLen(_)
\* len(comment_text)
TextLen(runs) ==
    IF runs = <<>> THEN 0 ELSE Head(runs).n + TextLen(Tail(runs))

\* str.lstrip(): drops the leading whitespace run only
LStrip(runs) == IF runs # <<>> /\ Head(runs).ws THEN Tail(runs) ELSE runs

\* str.strip(): drops the leading and the trailing whitespace run
Strip(runs) ==
    LET a == IF runs # <<>> /\ Head(runs).ws THEN Tail(runs) ELSE runs
    IN  IF a # <<>> /\ a[Len(a)].ws THEN SubSeq(a, 1, Len(a) - 1) ELSE a

NoComment == [given |-> FALSE, runs |-> <<>>]
CommentStr(runs) == [given |-> TRUE, runs |-> runs]

(***************************************************************************)
(* Inputs the model draws from.                                            *)
(***************************************************************************)
\* titles and release dates (a date is its day number; DateField keeps the
\* order of dates and isoformat() keeps it too)
RemoteRecords ==
    {[title |-> "A", release_date |-> 2], [title |-> "B", release_date |-> 1]}

\* what getfilms() can return: every sequence of at most MaxFeedLen records
Feeds == UNION {[1..n -> RemoteRecords] : n \in 0..MaxFeedLen}

\* the 'film' field of a POST body: missing, 0, existing ids, an id nobody
\* has, the JSON number 1.5, the strings "a", "1" and "1.5"
FilmInputs ==
    {PyNone, PyInt(0), PyInt(1), PyInt(2), PyInt(9), PyFloat(3, 2),
     PyStr(<<"a">>), PyStr(<<"1">>), PyStr(<<"1", ".", "5">>)}

\* the 'comment' field: missing, "", blanks only, " x ", 500 characters
\* between blanks, 501 characters, 501 characters after a blank
CommentInputs ==
    {NoComment,
     CommentStr(<<>>),
     CommentStr(<<Run(TRUE, 3)>>),
     CommentStr(<<Run(TRUE, 1), Run(FALSE, 1), Run(TRUE, 1)>>),
     CommentStr(<<Run(TRUE, 1), Run(FALSE, MaxCommentLen), Run(TRUE, 1)>>),
     CommentStr(<<Run(FALSE, MaxCommentLen + 1)>>),
     CommentStr(<<Run(TRUE, 1), Run(FALSE, MaxCommentLen + 1)>>)}

\* the film_id of a URL (<int:film_id>): identifiers sync can create, and
\* one it cannot
UrlIds == 1..(MaxFeedLen + 1)

\* str(e) of an exception raised by the database or the cache backend
ErrMsgs == {"connection refused", "timeout"}

(***************************************************************************)
(* State.                                                                  *)
(***************************************************************************)
VARIABLES
    catalog,      \* FilmCache rows, a sequence; the row at position i has pk i
    localFilms,   \* Film rows, a set of [id, title]
    comments,     \* Comments rows in insertion (created_at) order
    nextCommentId,\* the next AutoField id of Comments
    cache,        \* django.core.cache.cache: key -> entry
    reqs,         \* bag of requests between two of their statements
    resp,         \* the response returned last, with what it was computed from
    sync,         \* the sync_films command
    syncRuns,     \* runs of sync_films started so far
    warm,         \* FilmConfig.ready
    acked,        \* highest Comments id whose POST has returned 201
    lastList      \* the payload of the last successful listFilms response,
                  \* while no comment creation, sync or expiry has overlapped
                  \* or followed the call

vars ==
    <<catalog, localFilms, comments, nextCommentId, cache, reqs, resp, sync,
      syncRuns, warm, acked, lastList>>

CacheKeys == {FILMS_CACHE_KEY} \cup {FilmKey(i) : i \in UrlIds}

NoEntry == [present |-> FALSE]
\* by: who computed the value
Entry(val, ttl, by) ==
    [present |-> TRUE, val |-> val, ttl |-> ttl, by |-> by]

\* cache.get(key): the value, or None when the key is absent or expired
CacheHit(key) == cache[key].present
\* cache.set(key, value, None): the timeout dropped, the entry never expires
CacheSetForever(c, key, val, ttl, by) ==
    [c EXCEPT ![key] = Entry(val, -1, by)]

\* cache.set(key, value, timeout)
CacheSet(c, key, val, ttl, by) ==
    [c EXCEPT ![key] = Entry(val, ttl, by)]
\* cache.delete(key)
CacheDelete(c, key) == [c EXCEPT ![key] = NoEntry]

(***************************************************************************)
(* Queries.                                                                *)
(***************************************************************************)
\* ORDER BY release_date of FilmCache rows; rows of one date stay in pk order
RowBefore(a, b) ==
    \/ a.release_date < b.release_date
    \/ a.release_date = b.release_date /\ a.id < b.id

RECURSIVE InsertRow(_, _)
InsertRow(row, sorted) ==
    IF sorted = <<>> THEN <<row>>
    ELSE IF RowBefore(row, Head(sorted)) THEN <<row>> \o sorted
    ELSE <<Head(sorted)>> \o InsertRow(row, Tail(sorted))

\* the rows as they were inserted, in primary key order
OrderByPk(rows) == rows

RECURSIVE OrderByReleaseDate(_)
\* FilmCache.objects.all().order_by('release_date')
OrderByReleaseDate(rows) ==
    IF rows = <<>> THEN <<>>
    ELSE InsertRow(rows[Len(rows)],
                   OrderByReleaseDate(SubSeq(rows, 1, Len(rows) - 1)))

\* Film.objects.filter(title=title).first(): the matching row of least id
FilmsTitled(films, title) == {f \in films : f.title = title}
FirstFilmByTitle(films, title) ==
    CHOOSE f \in FilmsTitled(films, title) :
        \A g \in FilmsTitled(films, title) : f.id <= g.id

\* Comments.objects.filter(film=film_record).count()
CountComments(cs, filmId) ==
    Cardinality({i \in 1..Len(cs) : cs[i].film = filmId})

\* the comments of every Film of the title, not of the first one only
CommentCountOfAllTitled(films, cs, title, failed) ==
    IF failed THEN 0
    ELSE Cardinality({i \in 1..Len(cs) :
                         \E f \in FilmsTitled(films, title) : cs[i].film = f.id})

\* the try/except around the count: 0 when no Film has the title, or when
\* the lookup or the count raises (failed)
CommentCount(films, cs, title, failed) ==
    IF failed THEN 0
    ELSE IF FilmsTitled(films, title) = {} THEN 0
    ELSE CountComments(cs, FirstFilmByTitle(films, title).id)

\* the dict a view builds for a FilmCache row, as FilmSerializer renders it
FilmView(row, count) ==
    [id |-> row.id, title |-> row.title, release_date |-> row.release_date,
     comment_count |-> count]

\* films_data of FilmsListView.get / FilmConfig.ready; failing is the set of
\* pks whose comment count resolution raises
FilmsData(rows, films, cs, failing) ==
    LET ordered == OrderByReleaseDate(rows)
    IN  [i \in 1..Len(ordered) |->
            FilmView(ordered[i],
                     CommentCount(films, cs, ordered[i].title,
                                  ordered[i].id \in failing))]

\* FilmCache.objects.get(film_id=film_id): the rows with that film_id
RowsWithFilmId(rows, film_id) ==
    {i \in 1..Len(rows) : rows[i].film_id = film_id}

(***************************************************************************)
(* Requests and responses.                                                 *)
(***************************************************************************)
Nothing == [some |-> FALSE, data |-> <<>>]
Some(data) == [some |-> TRUE, data |-> data]

InFlight == BagCardinality(reqs)
Requests == BagToSet(reqs)
Add(r) == reqs (+) SetToBag({r})
Remove(r) == reqs (-) SetToBag({r})
Replace(r, q) == (reqs (-) SetToBag({r})) (+) SetToBag({q})

NoResp ==
    [op |-> "none", status |-> 0, error |-> "", detail |-> "", data |-> <<>>,
     by |-> "", ack0 |-> 0, expect |-> Nothing,
     readStore |-> FALSE,
     wroteCache |-> FALSE, fault |-> "", countFailed |-> FALSE,
     staff |-> FALSE, id |-> 0, film |-> PyNone, comment |-> NoComment]

\* views.py:66-74 and the like: the generic 500 of the outer except
ErrorDetail(staff, msg) == IF staff THEN msg ELSE "Internal server error"

ServerError(op, what, staff, msg) ==
    [NoResp EXCEPT !.op = op, !.status = HTTP_500_INTERNAL_SERVER_ERROR,
                   !.error = what, !.detail = ErrorDetail(staff, msg),
                   !.staff = staff]

\* FilmCache.DoesNotExist left to the outer except: the generic 500
FilmLookupRaised(film_id) ==
    [ServerError("film", "An error occurred while fetching film details",
                 FALSE, "FilmCache matching query does not exist.")
        EXCEPT !.id = film_id, !.readStore = TRUE]

\* views.py:111-118: FilmCache.DoesNotExist is answered with a 404
FilmNotFound(film_id) ==
    [NoResp EXCEPT !.op = "film", !.id = film_id,
                   !.status = HTTP_404_NOT_FOUND, !.error = "Film not found",
                   !.detail = "Film with ID does not exist",
                   !.readStore = TRUE]

Max(a, b) == IF a >= b THEN a ELSE b

\* no comment creation and no sync run is under way
Settled == sync.pc = "idle" /\ \A r \in Requests : r.op # "create"

\* the comment creations and sync runs begun so far
Changes == (nextCommentId - 1) + syncRuns

\* what a request that begins now remembers of them
Since == IF Settled THEN Changes ELSE -1

\* lastList after a listFilms response with this payload to a request that
\* began at since: the payload, when no comment creation and no sync run
\* overlapped the request
Returned(data, since) ==
    IF Settled /\ since = Changes THEN Some(data) ELSE Nothing

\* a request that has run some statements of its handler and not the rest
Request(op, pc, ack0, expect, snap, film, comment, cid) ==
    [op |-> op, pc |-> pc, ack0 |-> ack0, expect |-> expect, snap |-> snap,
     since |-> Since,
     failing |-> {}, film |-> film, comment |-> comment,
     cid |-> cid]

(***************************************************************************)
(* Init: an empty FilmCache table and an empty cache, two Film rows of the *)
(* same title (rows of Film are made in the admin site only), no comment.  *)
(***************************************************************************)
\* sync_films is not running; before: the film_ids the table held when the
\* run began
SyncIdle ==
    [pc |-> "idle", feed |-> <<>>, k |-> 0, created |-> 0, updated |-> 0,
     before |-> {}]

InitFilms == {[id |-> 1, title |-> "A"], [id |-> 2, title |-> "A"]}

Init ==
    /\ catalog = <<>>
    /\ localFilms = InitFilms
    /\ comments = <<>>
    /\ nextCommentId = 1
    /\ cache = [k \in CacheKeys |-> NoEntry]
    /\ reqs = EmptyBag
    /\ resp = NoResp
    /\ sync = SyncIdle
    /\ syncRuns = 0
    /\ warm = [pc |-> "init", snap |-> <<>>]
    /\ acked = 0
    /\ lastList = Nothing

(***************************************************************************)
(* GET /films/  (FilmsListView.get)                                        *)
(***************************************************************************)
\* views.py:35-37: cache.get; a hit is returned as it is
ListStart ==
    /\ InFlight < MaxInFlight
    /\ IF CacheHit(FILMS_CACHE_KEY)
       THEN /\ resp' = [NoResp EXCEPT !.op = "list", !.status = HTTP_200_OK,
                            !.data = cache[FILMS_CACHE_KEY].val,
                            !.by = cache[FILMS_CACHE_KEY].by,
                            !.ack0 = acked, !.expect = lastList]
            /\ lastList' = Returned(cache[FILMS_CACHE_KEY].val, Since)
            /\ reqs' = reqs
       ELSE /\ reqs' = Add(Request("list", "list_read", acked, lastList, <<>>,
                                   PyNone, NoComment, 0))
            /\ resp' = NoResp
            /\ lastList' = lastList
    /\ UNCHANGED <<catalog, localFilms, comments, nextCommentId, cache, sync,
                   syncRuns, warm, acked>>

\* views.py:39-59: the FilmCache rows in release date order, each with its
\* comment count; failing: the rows whose count resolution raises
ListRead(r, failing) ==
    /\ r.op = "list" /\ r.pc = "list_read"
    /\ reqs' = Replace(r, [r EXCEPT !.pc = "list_set",
                              !.snap = FilmsData(catalog, localFilms, comments,
                                                 failing),
                              !.failing = failing])
    /\ resp' = NoResp
    /\ UNCHANGED <<catalog, localFilms, comments, nextCommentId, cache, sync,
                   syncRuns, warm, acked, lastList>>

\* cache.set of films_data as it is before the counts are filled in
ListSetUncounted(r) ==
    /\ r.op = "list" /\ r.pc = "list_set"
    /\ cache' = CacheSet(cache, FILMS_CACHE_KEY,
                       [i \in 1..Len(r.snap) |->
                           [r.snap[i] EXCEPT !.comment_count = 0]],
                       CACHE_TTL, "list")
    /\ reqs' = Replace(r, [r EXCEPT !.pc = "list_return"])
    /\ resp' = NoResp
    /\ UNCHANGED <<catalog, localFilms, comments, nextCommentId, sync,
                   syncRuns, warm, acked, lastList>>

\* views.py:61: cache.set with CACHE_TTL
ListSet(r) ==
    /\ r.op = "list" /\ r.pc = "list_set"
    /\ cache' = CacheSet(cache, FILMS_CACHE_KEY, r.snap, CACHE_TTL, "list")
    /\ reqs' = Replace(r, [r EXCEPT !.pc = "list_return"])
    /\ resp' = NoResp
    /\ UNCHANGED <<catalog, localFilms, comments, nextCommentId, sync,
                   syncRuns, warm, acked, lastList>>

\* views.py:64: the 200 with the list that was computed
ListReturn(r) ==
    /\ r.op = "list" /\ r.pc = "list_return"
    /\ reqs' = Remove(r)
    /\ resp' = [NoResp EXCEPT !.op = "list", !.status = HTTP_200_OK,
                    !.data = r.snap, !.by = "list",
                    !.ack0 = r.ack0,
                    !.expect = r.expect, !.readStore = TRUE,
                    !.wroteCache = TRUE]
    /\ lastList' = Returned(r.snap, r.since)
    /\ UNCHANGED <<catalog, localFilms, comments, nextCommentId, cache, sync,
                   syncRuns, warm, acked>>

(***************************************************************************)
(* POST /comments/  (CommentCreateView.post)                               *)
(***************************************************************************)
Rejected(status, error, detail) ==
    [status |-> status, error |-> error, detail |-> detail, filmId |-> 0,
     text |-> <<>>]

\* views.py:246-306: the checks in the order of the code, and what reaches
\* Comments.objects.create
CreateOutcome(film, comment, films) ==
    IF Falsy(film)
    THEN Rejected(HTTP_400_BAD_REQUEST, "Validation error",
                  "film ID is required")
    ELSE IF ~PyIntOf(film).ok
    THEN Rejected(HTTP_400_BAD_REQUEST, "Validation error",
                  "film ID must be a valid integer")
    ELSE IF ~\E f \in films : f.id = PyIntOf(film).v
    THEN Rejected(HTTP_404_NOT_FOUND, "Film not found",
                  "Film with ID does not exist")
    ELSE IF ~comment.given \/ comment.runs = <<>>
    THEN Rejected(HTTP_400_BAD_REQUEST, "Validation error",
                  "comment text is required")
    ELSE IF Strip(comment.runs) = <<>>
    THEN Rejected(HTTP_400_BAD_REQUEST, "Validation error",
                  "comment cannot be empty or whitespace only")
    ELSE IF TextLen(Strip(comment.runs)) > MaxCommentLen
    THEN Rejected(HTTP_400_BAD_REQUEST, "Validation error",
                  "Comment cannot exceed 500 characters")
    ELSE [status |-> HTTP_201_CREATED, error |-> "", detail |-> "",
          filmId |-> PyIntOf(film).v, text |-> Strip(comment.runs)]

\* views.py:246-311: validation, then Comments.objects.create
CreateComment(film, comment) ==
    LET out == CreateOutcome(film, comment, localFilms)
    IN  /\ InFlight < MaxInFlight
        /\ IF out.status = HTTP_201_CREATED
           THEN /\ nextCommentId <= MaxComments
                /\ comments' = Append(comments,
                                      [id |-> nextCommentId,
                                       film |-> out.filmId,
                                       comment |-> out.text])
                /\ nextCommentId' = nextCommentId + 1
                /\ reqs' = Add(Request("create", "create_del", 0, Nothing,
                                       <<>>, film, comment, nextCommentId))
                /\ resp' = NoResp
                /\ lastList' = Nothing
           ELSE /\ resp' = [NoResp EXCEPT !.op = "create",
                                !.status = out.status, !.error = out.error,
                                !.detail = out.detail, !.film = film,
                                !.comment = comment]
                /\ UNCHANGED <<comments, nextCommentId, reqs, lastList>>
        /\ UNCHANGED <<catalog, localFilms, cache, sync, syncRuns, warm, acked>>

\* the delete extended to every key of the cache, then the 201
CreateInvalidateAll(r) ==
    /\ r.op = "create" /\ r.pc = "create_del"
    /\ cache' = [k \in CacheKeys |-> NoEntry]
    /\ reqs' = Remove(r)
    /\ resp' = [NoResp EXCEPT !.op = "create", !.status = HTTP_201_CREATED,
                    !.id = r.cid, !.film = r.film, !.comment = r.comment,
                    !.data = <<[id |-> r.cid,
                                comment |-> Strip(r.comment.runs)]>>]
    /\ acked' = Max(acked, r.cid)
    /\ lastList' = Nothing
    /\ UNCHANGED <<catalog, localFilms, comments, nextCommentId, sync,
                   syncRuns, warm>>

\* views.py:313-320: cache.delete(FILMS_CACHE_KEY), then the 201
CreateInvalidate(r) ==
    /\ r.op = "create" /\ r.pc = "create_del"
    /\ cache' = CacheDelete(cache, FILMS_CACHE_KEY)
    /\ reqs' = Remove(r)
    /\ resp' = [NoResp EXCEPT !.op = "create", !.status = HTTP_201_CREATED,
                    !.id = r.cid, !.film = r.film, !.comment = r.comment,
                    !.data = <<[id |-> r.cid,
                                comment |-> Strip(r.comment.runs)]>>]
    /\ acked' = Max(acked, r.cid)
    /\ lastList' = Nothing
    /\ UNCHANGED <<catalog, localFilms, comments, nextCommentId, sync,
                   syncRuns, warm>>

(***************************************************************************)
(* GET /films/<film_id>/  (FilmDetailView.get)                             *)
(***************************************************************************)
\* views.py:100-140; failed: the comment count resolution raises
GetFilm(film_id, failed) ==
    LET key == FilmKey(film_id)
        found == RowsWithFilmId(catalog, PyStrOfNat(film_id))
    IN  /\ InFlight < MaxInFlight
        /\ IF CacheHit(key)
           THEN /\ resp' = [NoResp EXCEPT !.op = "film", !.id = film_id,
                                !.status = HTTP_200_OK, !.data = cache[key].val]
                /\ cache' = cache
           ELSE IF found = {}
           THEN /\ resp' = FilmNotFound(film_id)
                /\ cache' = cache
           ELSE LET film == catalog[CHOOSE i \in found : TRUE]
                    view == FilmView(film,
                                     CommentCount(localFilms, comments,
                                                  film.title, failed))
                IN  /\ cache' = CacheSet(cache, key, view, CACHE_TTL, "film")
                    /\ resp' = [NoResp EXCEPT !.op = "film", !.id = film_id,
                                    !.status = HTTP_200_OK, !.data = view,
                                    !.readStore = TRUE, !.wroteCache = TRUE,
                                    !.countFailed = failed]
        /\ UNCHANGED <<catalog, localFilms, comments, nextCommentId, reqs,
                       sync, syncRuns, warm, acked, lastList>>

(***************************************************************************)
(* GET /films/<film_id>/comments/  (CommentsListView.get)                  *)
(***************************************************************************)
\* the rows of the film, newest first: order_by('-created_at')
CommentsOfFilmNewestFirst(cs, filmId) ==
    LET rows == SelectSeq(cs, LAMBDA c : c.film = filmId)
    IN  [i \in 1..Len(rows) |-> rows[Len(rows) + 1 - i]]

\* Comments.objects.filter(film=film).order_by('created_at'): the rows of
\* the film, which the table holds in the order of their creation
CommentsOfFilm(cs, filmId) == SelectSeq(cs, LAMBDA c : c.film = filmId)

\* views.py:184-187: Film.DoesNotExist is answered with a 404
CommentsFilmNotFound(film_id) ==
    [NoResp EXCEPT !.op = "comments", !.id = film_id,
                   !.status = HTTP_404_NOT_FOUND, !.error = "Film not found",
                   !.detail = "Film with ID does not exist",
                   !.readStore = TRUE]

\* views.py:176-192; film_id is the pk of a Film here
ListComments(film_id) ==
    /\ InFlight < MaxInFlight
    /\ resp' = IF \E f \in localFilms : f.id = film_id
               THEN [NoResp EXCEPT !.op = "comments", !.id = film_id,
                         !.status = HTTP_200_OK,
                         !.data = CommentsOfFilm(comments, film_id),
                         !.readStore = TRUE]
               ELSE CommentsFilmNotFound(film_id)
    /\ UNCHANGED <<catalog, localFilms, comments, nextCommentId, cache, reqs,
                   sync, syncRuns, warm, acked, lastList>>

(***************************************************************************)
(* GET /health/  (HealthCheckView.get)                                     *)
(***************************************************************************)
\* views.py:347-355: SELECT 1 succeeds
HealthCheck ==
    /\ InFlight < MaxInFlight
    /\ resp' = [NoResp EXCEPT !.op = "health", !.status = HTTP_200_OK,
                    !.data = <<"healthy", "connected">>]
    /\ UNCHANGED <<catalog, localFilms, comments, nextCommentId, cache, reqs,
                   sync, syncRuns, warm, acked, lastList>>

(***************************************************************************)
(* python manage.py sync_films  (Command.handle)                           *)
(***************************************************************************)

\* sync_films.py:28-37: getfilms returned a list
SyncFetch(feed) ==
    /\ sync.pc = "idle"
    /\ syncRuns < MaxSyncs
    /\ sync' = [pc |-> "upsert", feed |-> feed, k |-> 0, created |-> 0,
                updated |-> 0,
                before |-> {catalog[i].film_id : i \in 1..Len(catalog)}]
    /\ syncRuns' = syncRuns + 1
    /\ resp' = NoResp
    /\ lastList' = Nothing
    /\ UNCHANGED <<catalog, localFilms, comments, nextCommentId, cache, reqs,
                   warm, acked>>

\* FilmCache.objects.create(film_id=film_id, ...) whether or not a row of
\* that film_id exists
AlwaysCreate(rows, film_id, rec) ==
    Append(rows, [id |-> Len(rows) + 1, film_id |-> film_id,
                  title |-> rec.title, release_date |-> rec.release_date])

\* FilmCache.objects.update_or_create(film_id=film_id, defaults=...)
UpdateOrCreate(rows, film_id, rec) ==
    IF RowsWithFilmId(rows, film_id) = {}
    THEN Append(rows, [id |-> Len(rows) + 1, film_id |-> film_id,
                       title |-> rec.title,
                       release_date |-> rec.release_date])
    ELSE [i \in 1..Len(rows) |->
            IF rows[i].film_id = film_id
            THEN [rows[i] EXCEPT !.title = rec.title,
                                 !.release_date = rec.release_date]
            ELSE rows[i]]

\* sync_films.py:29-33: getfilms returns the error string (utils.py:18-19),
\* handle reports it and returns before the loop and the cache.delete
SyncFetchFails ==
    /\ sync.pc = "idle"
    /\ syncRuns < MaxSyncs
    /\ syncRuns' = syncRuns + 1
    /\ resp' = NoResp
    /\ lastList' = Nothing
    /\ UNCHANGED <<catalog, localFilms, comments, nextCommentId, cache, reqs,
                   sync, warm, acked>>

\* one turn of the loop with the identifier taken from the size of the
\* table: film_id = str(FilmCache.objects.count() + 1)
SyncUpsertAppending ==
    /\ sync.pc = "upsert"
    /\ sync.k < Len(sync.feed)
    /\ LET film_id == PyStrOfNat(Len(catalog) + 1)
           created == RowsWithFilmId(catalog, film_id) = {}
       IN  /\ catalog' = UpdateOrCreate(catalog, film_id, sync.feed[sync.k + 1])
           /\ sync' = [sync EXCEPT !.k = sync.k + 1,
                          !.created = IF created THEN @ + 1 ELSE @,
                          !.updated = IF created THEN @ ELSE @ + 1]
    /\ resp' = NoResp
    /\ lastList' = Nothing
    /\ UNCHANGED <<localFilms, comments, nextCommentId, cache, reqs, syncRuns,
                   warm, acked>>

\* sync_films.py:39-57: one turn of the loop
SyncUpsert ==
    /\ sync.pc = "upsert"
    /\ sync.k < Len(sync.feed)
    /\ LET film_id == PyStrOfNat(sync.k + 1)
           created == RowsWithFilmId(catalog, film_id) = {}
       IN  /\ catalog' = UpdateOrCreate(catalog, film_id, sync.feed[sync.k + 1])
           /\ sync' = [sync EXCEPT !.k = sync.k + 1,
                          !.created = IF created THEN @ + 1 ELSE @,
                          !.updated = IF created THEN @ ELSE @ + 1]
    /\ resp' = NoResp
    /\ lastList' = Nothing
    /\ UNCHANGED <<localFilms, comments, nextCommentId, cache, reqs, syncRuns,
                   warm, acked>>

\* sync_films.py:59-70: cache.delete('films_list') and the summary
SyncInvalidate ==
    /\ sync.pc = "upsert"
    /\ sync.k = Len(sync.feed)
    /\ cache' = CacheDelete(cache, FILMS_CACHE_KEY)
    /\ sync' = SyncIdle
    /\ resp' = NoResp
    /\ lastList' = Nothing
    /\ UNCHANGED <<catalog, localFilms, comments, nextCommentId, reqs,
                   syncRuns, warm, acked>>

(***************************************************************************)
(* Startup cache warming  (FilmConfig.ready)                               *)
(***************************************************************************)
\* apps.py:21-24, 56-57: cache.get('films_list')
WarmCheck ==
    /\ warm.pc = "init"
    /\ warm' = [warm EXCEPT !.pc = IF CacheHit(FILMS_CACHE_KEY) THEN "done"
                                   ELSE "read"]
    /\ resp' = NoResp
    /\ UNCHANGED <<catalog, localFilms, comments, nextCommentId, cache, reqs,
                   sync, syncRuns, acked, lastList>>

\* the films_data of the warm step with every comment_count left at 0
WarmReadUncounted ==
    /\ warm.pc = "read"
    /\ warm' = IF catalog = <<>>
               THEN [warm EXCEPT !.pc = "done"]
               ELSE [pc |-> "set",
                     snap |-> FilmsData(catalog, {}, <<>>, {})]
    /\ resp' = NoResp
    /\ UNCHANGED <<catalog, localFilms, comments, nextCommentId, cache, reqs,
                   sync, syncRuns, acked, lastList>>

\* apps.py:28-48, 54-55: nothing is cached when the table is empty
WarmRead ==
    /\ warm.pc = "read"
    /\ warm' = IF catalog = <<>>
               THEN [warm EXCEPT !.pc = "done"]
               ELSE [pc |-> "set",
                     snap |-> FilmsData(catalog, localFilms, comments, {})]
    /\ resp' = NoResp
    /\ UNCHANGED <<catalog, localFilms, comments, nextCommentId, cache, reqs,
                   sync, syncRuns, acked, lastList>>

\* apps.py:51-52: cache.set(cache_key, serializer.data, 60 * 10)
WarmSet ==
    /\ warm.pc = "set"
    /\ cache' = CacheSet(cache, FILMS_CACHE_KEY, warm.snap, 60 * 10, "warm")
    /\ warm' = [pc |-> "done", snap |-> <<>>]
    /\ resp' = NoResp
    /\ UNCHANGED <<catalog, localFilms, comments, nextCommentId, reqs, sync,
                   syncRuns, acked, lastList>>

\* apps.py:57-58: a statement of the warm step raises (cache.get, the query,
\* cache.set); the except prints the error and ready() returns
WarmFails ==
    /\ warm.pc \in {"init", "read", "set"}
    /\ warm' = [pc |-> "failed", snap |-> <<>>]
    /\ resp' = NoResp
    /\ UNCHANGED <<catalog, localFilms, comments, nextCommentId, cache, reqs,
                   sync, syncRuns, acked, lastList>>

(***************************************************************************)
(* The environment: the admin site deletes a Film, time passes.            *)
(***************************************************************************)
\* the delete of a Film that leaves its comments: on_delete=DO_NOTHING
DeleteFilmOnly(f) ==
    /\ f \in localFilms
    /\ localFilms' = localFilms \ {f}
    /\ resp' = NoResp
    /\ UNCHANGED <<catalog, comments, nextCommentId, cache, reqs, sync,
                   syncRuns, warm, acked, lastList>>

\* models.py:27: on_delete=models.CASCADE
DeleteFilm(f) ==
    /\ f \in localFilms
    /\ localFilms' = localFilms \ {f}
    /\ comments' = SelectSeq(comments, LAMBDA c : c.film # f.id)
    /\ resp' = NoResp
    /\ UNCHANGED <<catalog, nextCommentId, cache, reqs, sync, syncRuns, warm,
                   acked, lastList>>

\* the timeout given to cache.set has run out: the key reads as absent; the
\* ten minutes do not run out between a cache.set and the return after it
Expire(key) ==
    /\ cache[key].present
    /\ cache[key].ttl \in Nat
    /\ \A r \in Requests : r.pc # "list_return"
    /\ cache' = CacheDelete(cache, key)
    /\ resp' = NoResp
    /\ lastList' = IF key = FILMS_CACHE_KEY THEN Nothing ELSE lastList
    /\ UNCHANGED <<catalog, localFilms, comments, nextCommentId, reqs, sync,
                   syncRuns, warm, acked>>

(***************************************************************************)
(* Faults: a cache operation or a query raises.  The statement that raises *)
(* is the one the action names; the outer except of the view answers.      *)
(***************************************************************************)
Faulted(r, what) == [r EXCEPT !.fault = what]

\* views.py:35 raises, 66-74 answer
ListCacheGetFails(staff, msg) ==
    /\ InFlight < MaxInFlight
    /\ resp' = Faulted(ServerError("list",
                                   "An error occurred while fetching films",
                                   staff, msg), "cache.get")
    /\ UNCHANGED <<catalog, localFilms, comments, nextCommentId, cache, reqs,
                   sync, syncRuns, warm, acked, lastList>>

\* the failing query read as an empty table: the empty list is cached and
\* answered
ListStoreFailsAsEmpty(r, staff, msg) ==
    /\ r.op = "list" /\ r.pc = "list_read"
    /\ reqs' = Remove(r)
    /\ cache' = CacheSet(cache, FILMS_CACHE_KEY, <<>>, CACHE_TTL, "list")
    /\ resp' = [Faulted(NoResp, "store") EXCEPT !.op = "list",
                    !.status = HTTP_200_OK, !.by = "list",
                    !.wroteCache = TRUE]
    /\ UNCHANGED <<catalog, localFilms, comments, nextCommentId, sync,
                   syncRuns, warm, acked, lastList>>

\* views.py:39-42: the FilmCache query raises, 66-74 answer
ListStoreFails(r, staff, msg) ==
    /\ r.op = "list" /\ r.pc = "list_read"
    /\ reqs' = Remove(r)
    /\ resp' = Faulted(ServerError("list",
                                   "An error occurred while fetching films",
                                   staff, msg), "store")
    /\ UNCHANGED <<catalog, localFilms, comments, nextCommentId, cache, sync,
                   syncRuns, warm, acked, lastList>>

\* views.py:61 raises, 66-74 answer
ListCacheSetFails(r, staff, msg) ==
    /\ r.op = "list" /\ r.pc = "list_set"
    /\ reqs' = Remove(r)
    /\ resp' = [Faulted(ServerError("list",
                                    "An error occurred while fetching films",
                                    staff, msg), "cache.set")
                  EXCEPT !.readStore = TRUE]
    /\ UNCHANGED <<catalog, localFilms, comments, nextCommentId, cache, sync,
                   syncRuns, warm, acked, lastList>>

\* views.py:102 raises, 142-150 answer
GetFilmCacheGetFails(film_id, staff, msg) ==
    /\ InFlight < MaxInFlight
    /\ resp' = [Faulted(ServerError("film",
                           "An error occurred while fetching film details",
                           staff, msg), "cache.get")
                  EXCEPT !.id = film_id]
    /\ UNCHANGED <<catalog, localFilms, comments, nextCommentId, cache, reqs,
                   sync, syncRuns, warm, acked, lastList>>

\* views.py:313 raises after the row was created, 322-330 answer
CreateCacheDeleteFails(r, staff, msg) ==
    /\ r.op = "create" /\ r.pc = "create_del"
    /\ reqs' = Remove(r)
    /\ resp' = [Faulted(ServerError("create",
                           "An error occurred while creating the comment",
                           staff, msg), "cache.delete")
                  EXCEPT !.id = r.cid, !.film = r.film, !.comment = r.comment]
    /\ lastList' = Nothing
    /\ UNCHANGED <<catalog, localFilms, comments, nextCommentId, cache, sync,
                   syncRuns, warm, acked>>

\* views.py:110 raises something other than DoesNotExist, 142-150 answer
GetFilmStoreFails(film_id, staff, msg) ==
    /\ InFlight < MaxInFlight
    /\ ~CacheHit(FilmKey(film_id))
    /\ resp' = [Faulted(ServerError("film",
                           "An error occurred while fetching film details",
                           staff, msg), "store")
                  EXCEPT !.id = film_id]
    /\ UNCHANGED <<catalog, localFilms, comments, nextCommentId, cache, reqs,
                   sync, syncRuns, warm, acked, lastList>>

\* views.py:179 or 189-190 raises, 194-202 answer
ListCommentsFails(film_id, staff, msg) ==
    /\ InFlight < MaxInFlight
    /\ resp' = [Faulted(ServerError("comments",
                           "An error occurred while fetching comments",
                           staff, msg), "store")
                  EXCEPT !.id = film_id]
    /\ UNCHANGED <<catalog, localFilms, comments, nextCommentId, cache, reqs,
                   sync, syncRuns, warm, acked, lastList>>

\* views.py:268 raises something other than DoesNotExist, or 308 raises:
\* nothing was created, 322-330 answer
CreateStoreFails(film, comment, staff, msg) ==
    /\ InFlight < MaxInFlight
    /\ resp' = [Faulted(ServerError("create",
                           "An error occurred while creating the comment",
                           staff, msg), "store")
                  EXCEPT !.film = film, !.comment = comment]
    /\ UNCHANGED <<catalog, localFilms, comments, nextCommentId, cache, reqs,
                   sync, syncRuns, warm, acked, lastList>>

\* views.py:349-350 raises, 356-361 answer: the body carries str(e) for
\* every caller
HealthCheckFails(staff, msg) ==
    /\ InFlight < MaxInFlight
    /\ resp' = [Faulted(NoResp, "store") EXCEPT !.op = "health",
                    !.status = HTTP_503_SERVICE_UNAVAILABLE,
                    !.data = <<"unhealthy", "disconnected">>,
                    !.error = msg, !.staff = staff]
    /\ UNCHANGED <<catalog, localFilms, comments, nextCommentId, cache, reqs,
                   sync, syncRuns, warm, acked, lastList>>

(***************************************************************************)
(* Specifications.  Each is the system restricted to the handlers that     *)
(* read or write the state its claims are about; all share Init.  A        *)
(* response is handed to the client (Deliver) before anything else runs.   *)
(***************************************************************************)
\* the response leaves the server
Deliver ==
    /\ resp.op # "none"
    /\ resp' = NoResp
    /\ UNCHANGED <<catalog, localFilms, comments, nextCommentId, cache, reqs,
                   sync, syncRuns, warm, acked, lastList>>

Quiet == resp.op = "none"

\* the first run of sync_films, which fills the empty FilmCache table
SyncOnce(feed) == syncRuns = 0 /\ SyncFetch(feed)

\* bodies that pass every check of CommentCreateView.post
ValidFilms == {PyInt(1), PyInt(2)}
ValidComments == {CommentStr(<<Run(TRUE, 1), Run(FALSE, 1), Run(TRUE, 1)>>)}

\* the film list, its cache key and everything that writes either
Next ==
    \/ Deliver
    \/ Quiet /\ ListStart
    \/ Quiet /\ \E r \in Requests : ListRead(r, {})
    \/ Quiet /\ \E r \in Requests : ListSet(r)
    \/ Quiet /\ \E r \in Requests : ListReturn(r)
    \/ Quiet /\ \E comment \in ValidComments : CreateComment(PyInt(1), comment)
    \/ Quiet /\ \E r \in Requests : CreateInvalidate(r)
    \/ Quiet /\ \E feed \in Feeds : SyncOnce(feed)
    \/ Quiet /\ SyncUpsert
    \/ Quiet /\ SyncInvalidate
    \/ Quiet /\ WarmCheck
    \/ Quiet /\ WarmRead
    \/ Quiet /\ WarmSet
    \/ Quiet /\ Expire(FILMS_CACHE_KEY)

Spec == Init /\ [][Next]_vars

\* the film list with time passing: an entry outlives no TTL, a handler
\* that has reached its return statement returns, a response is delivered;
\* the delete of the list key can fail after the comment is stored
NextTTL ==
    \/ Next
    \/ Quiet /\ \E r \in Requests :
                   CreateCacheDeleteFails(r, FALSE, "timeout")

FairTTL ==
    /\ WF_vars(Deliver)
    /\ SF_vars(Quiet /\ \E r \in Requests : ListReturn(r))
    /\ SF_vars(Quiet /\ Expire(FILMS_CACHE_KEY))

SpecTTL == Init /\ [][NextTTL]_vars /\ FairTTL

\* the film list, the film detail and repeated sync runs, one after the
\* other: no list request begins during a sync run and no sync run begins
\* during a list request
NextIds ==
    \/ Deliver
    \/ Quiet /\ Settled /\ ListStart
    \/ Quiet /\ \E r \in Requests : ListRead(r, {})
    \/ Quiet /\ \E r \in Requests : ListSet(r)
    \/ Quiet /\ \E r \in Requests : ListReturn(r)
    \/ Quiet /\ \E film_id \in UrlIds : GetFilm(film_id, FALSE)
    \/ Quiet /\ (\A r \in Requests : r.op # "list")
             /\ \E feed \in Feeds : SyncFetch(feed)
    \/ Quiet /\ SyncUpsert
    \/ Quiet /\ SyncInvalidate

SpecIds == Init /\ [][NextIds]_vars

\* the film list slice with a warm step that can fail
NextWarm ==
    \/ Next
    \/ Quiet /\ WarmFails

SpecWarm == Init /\ [][NextWarm]_vars

\* repeated sync runs, with fetches that fail, beside the film list
NextSync ==
    \/ Deliver
    \/ Quiet /\ ListStart
    \/ Quiet /\ \E r \in Requests : ListRead(r, {})
    \/ Quiet /\ \E r \in Requests : ListSet(r)
    \/ Quiet /\ \E r \in Requests : ListReturn(r)
    \/ Quiet /\ \E feed \in Feeds : SyncFetch(feed)
    \/ Quiet /\ SyncFetchFails
    \/ Quiet /\ SyncUpsert
    \/ Quiet /\ SyncInvalidate

SpecSync == Init /\ [][NextSync]_vars

\* comment creation on every kind of body
NextComment ==
    \/ Deliver
    \/ Quiet /\ \E film \in FilmInputs, comment \in CommentInputs :
                   CreateComment(film, comment)
    \/ Quiet /\ \E r \in Requests : CreateInvalidate(r)
    \/ Quiet /\ \E f \in localFilms : DeleteFilm(f)

SpecComment == Init /\ [][NextComment]_vars

\* film detail, its cache keys and everything that writes either
NextFilm ==
    \/ Deliver
    \/ Quiet /\ \E film \in ValidFilms, comment \in ValidComments :
                   CreateComment(film, comment)
    \/ Quiet /\ \E r \in Requests : CreateInvalidate(r)
    \/ Quiet /\ \E film_id \in UrlIds : GetFilm(film_id, FALSE)
    \/ Quiet /\ \E feed \in Feeds : SyncFetch(feed)
    \/ Quiet /\ SyncUpsert
    \/ Quiet /\ SyncInvalidate
    \/ Quiet /\ \E f \in localFilms : DeleteFilm(f)
    \/ Quiet /\ \E key \in CacheKeys : Expire(key)

SpecFilm == Init /\ [][NextFilm]_vars

\* the handlers with a failing cache or store, for a caller who is not
\* staff
NextFault ==
    \/ Deliver
    \/ Quiet /\ ListStart
    \/ Quiet /\ \E r \in Requests : ListRead(r, {})
    \/ Quiet /\ \E r \in Requests : ListSet(r)
    \/ Quiet /\ \E r \in Requests : ListReturn(r)
    \/ Quiet /\ \E msg \in ErrMsgs : ListCacheGetFails(FALSE, msg)
    \/ Quiet /\ \E r \in Requests, msg \in ErrMsgs :
                   ListStoreFails(r, FALSE, msg)
    \/ Quiet /\ \E r \in Requests, msg \in ErrMsgs :
                   ListCacheSetFails(r, FALSE, msg)
    \/ Quiet /\ \E film \in ValidFilms, comment \in ValidComments :
                   CreateComment(film, comment)
    \/ Quiet /\ \E r \in Requests : CreateInvalidate(r)
    \/ Quiet /\ \E r \in Requests, msg \in ErrMsgs :
                   CreateCacheDeleteFails(r, FALSE, msg)
    \/ Quiet /\ \E film_id \in UrlIds, msg \in ErrMsgs :
                   GetFilmCacheGetFails(film_id, FALSE, msg)
    \/ Quiet /\ \E feed \in Feeds : SyncOnce(feed)
    \/ Quiet /\ SyncUpsert
    \/ Quiet /\ SyncInvalidate

SpecFault == Init /\ [][NextFault]_vars

\* the two read paths with a comment count resolution that may raise
NextCount ==
    \/ Deliver
    \/ Quiet /\ ListStart
    \/ Quiet /\ \E r \in Requests, failing \in SUBSET (1..Len(catalog)) :
                   ListRead(r, failing)
    \/ Quiet /\ \E r \in Requests : ListSet(r)
    \/ Quiet /\ \E r \in Requests : ListReturn(r)
    \/ Quiet /\ \E film \in ValidFilms, comment \in ValidComments :
                   CreateComment(film, comment)
    \/ Quiet /\ \E r \in Requests : CreateInvalidate(r)
    \/ Quiet /\ \E film_id \in UrlIds, failed \in BOOLEAN :
                   GetFilm(film_id, failed)
    \/ Quiet /\ \E feed \in Feeds : SyncOnce(feed)
    \/ Quiet /\ SyncUpsert
    \/ Quiet /\ SyncInvalidate

SpecCount == Init /\ [][NextCount]_vars

\* listFilms requests on a cold cache over a store that no longer changes:
\* comments and the sync run come first, while 'films_list' is absent and
\* no listFilms request has begun
Cold == ~CacheHit(FILMS_CACHE_KEY) /\ \A r \in Requests : r.op # "list"

NextCold ==
    \/ Deliver
    \/ Quiet /\ Settled /\ ListStart
    \/ Quiet /\ \E r \in Requests : ListRead(r, {})
    \/ Quiet /\ \E r \in Requests : ListSet(r)
    \/ Quiet /\ \E r \in Requests : ListReturn(r)
    \/ Quiet /\ Cold /\ \E film \in ValidFilms, comment \in ValidComments :
                           CreateComment(film, comment)
    \/ Quiet /\ \E r \in Requests : CreateInvalidate(r)
    \/ Quiet /\ Cold /\ \E feed \in Feeds : SyncOnce(feed)
    \/ Quiet /\ SyncUpsert
    \/ Quiet /\ SyncInvalidate

SpecCold == Init /\ [][NextCold]_vars

\* the failure answers of the five endpoints, for staff and other callers
NextError ==
    \/ Deliver
    \/ Quiet /\ ListStart
    \/ Quiet /\ \E r \in Requests : ListRead(r, {})
    \/ Quiet /\ \E r \in Requests : ListSet(r)
    \/ Quiet /\ \E r \in Requests : ListReturn(r)
    \/ Quiet /\ \E staff \in BOOLEAN, msg \in ErrMsgs :
                   ListCacheGetFails(staff, msg)
    \/ Quiet /\ \E r \in Requests, staff \in BOOLEAN, msg \in ErrMsgs :
                   ListStoreFails(r, staff, msg)
    \/ Quiet /\ \E r \in Requests, staff \in BOOLEAN, msg \in ErrMsgs :
                   ListCacheSetFails(r, staff, msg)
    \/ Quiet /\ \E film_id \in UrlIds : GetFilm(film_id, FALSE)
    \/ Quiet /\ \E film_id \in UrlIds, staff \in BOOLEAN, msg \in ErrMsgs :
                   GetFilmCacheGetFails(film_id, staff, msg)
    \/ Quiet /\ \E film_id \in UrlIds, staff \in BOOLEAN, msg \in ErrMsgs :
                   GetFilmStoreFails(film_id, staff, msg)
    \/ Quiet /\ \E film_id \in UrlIds : ListComments(film_id)
    \/ Quiet /\ \E film_id \in UrlIds, staff \in BOOLEAN, msg \in ErrMsgs :
                   ListCommentsFails(film_id, staff, msg)
    \/ Quiet /\ \E film \in ValidFilms, comment \in ValidComments :
                   CreateComment(film, comment)
    \/ Quiet /\ \E r \in Requests : CreateInvalidate(r)
    \/ Quiet /\ \E film \in ValidFilms, comment \in ValidComments,
                     staff \in BOOLEAN, msg \in ErrMsgs :
                   CreateStoreFails(film, comment, staff, msg)
    \/ Quiet /\ \E r \in Requests, staff \in BOOLEAN, msg \in ErrMsgs :
                   CreateCacheDeleteFails(r, staff, msg)
    \/ Quiet /\ HealthCheck
    \/ Quiet /\ \E staff \in BOOLEAN, msg \in ErrMsgs :
                   HealthCheckFails(staff, msg)

SpecError == Init /\ [][NextError]_vars

\* the comments of a film: creation, listing, and deletion of the Film
NextComments ==
    \/ Deliver
    \/ Quiet /\ \E film \in ValidFilms \cup {PyInt(9)},
                    comment \in ValidComments \cup {NoComment} :
                   CreateComment(film, comment)
    \/ Quiet /\ \E r \in Requests : CreateInvalidate(r)
    \/ Quiet /\ \E film_id \in UrlIds : ListComments(film_id)
    \/ Quiet /\ \E f \in localFilms : DeleteFilm(f)

SpecComments == Init /\ [][NextComments]_vars

(***************************************************************************)
(* Claims.                                                                 *)
(***************************************************************************)
ListAnswered == resp.op = "list" /\ resp.status = HTTP_200_OK

\* C1: a listFilms call that starts after a createComment call has returned
\* 201 returns a list whose comment count includes the new comment, also
\* when other listFilms requests are in flight while the comment is created.
\* Under Spec every comment is made on Film 1, which is never deleted and is
\* the first Film of its title, so the count of every entry of that title is
\* at least the number of comments acknowledged before the call started
\* (ack0).  Stated of the lists that listFilms itself computed.
C1_ListAfterCreateCountsComment ==
    (ListAnswered /\ resp.by = "list") =>
        \A i \in 1..Len(resp.data) :
            (\E f \in InitFilms : f.id = 1 /\ f.title = resp.data[i].title)
                => resp.data[i].comment_count >= resp.ack0

\* C2: when a listFilms call has returned successfully and a second one is
\* called before the TTL runs out with no createComment and no sync in
\* between (expect: the payload the first returned, no comment creation or
\* sync run being under way since), the second returns exactly that payload
\* and reads neither store; an empty list included.  Stated of the second
\* calls that are answered with a list listFilms itself computed.
C2_SecondListIsSamePayload ==
    (ListAnswered /\ resp.expect.some /\ resp.by = "list") =>
        (resp.data = resp.expect.data /\ ~resp.readStore)

\* a list of film dicts in ascending order of release date
SortedByReleaseDate(films) ==
    \A i, j \in 1..Len(films) :
        i < j => films[i].release_date <= films[j].release_date

\* C3: every successful listFilms response, from the cache or computed on a
\* miss, and every value held under 'films_list', whoever stored it, is
\* sorted ascending by release date.
C3_ListsSortedByReleaseDate ==
    /\ ListAnswered => SortedByReleaseDate(resp.data)
    /\ CacheHit(FILMS_CACHE_KEY) =>
           SortedByReleaseDate(cache[FILMS_CACHE_KEY].val)

\* a list served from the cache whose order is not the order of insertion
C3_Witness ==
    /\ ListAnswered /\ ~resp.readStore
    /\ Len(resp.data) = 2
    /\ resp.data[1].id > resp.data[2].id
    /\ resp.data[1].release_date < resp.data[2].release_date

\* the kinds of POST body the claims about createComment speak of
MissingFilm(film) == film.t = "none"
FractionalFilm(film) == film.t = "float" /\ film.n % film.d # 0
IntegerNumeral(film) ==
    film.t = "str" /\ film.s # <<>> /\ \A i \in 1..Len(film.s) : IsDigit(film.s[i])
NotAnInteger(film) ==
    FractionalFilm(film) \/ (film.t = "str" /\ ~IntegerNumeral(film))
HasLocalFilm(film) == film.t = "int" /\ \E f \in localFilms : f.id = film.n
\* an id a Film row could have (AutoField: 1 or more) and none has
NoLocalFilm(film) ==
    film.t = "int" /\ film.n >= 1 /\ ~\E f \in localFilms : f.id = film.n

EmptyText(c) == c.given /\ c.runs = <<>>
BlankText(c) ==
    c.given /\ c.runs # <<>> /\ \A i \in 1..Len(c.runs) : c.runs[i].ws
\* the length of a text without the blanks at its two ends
TrimmedLen(runs) ==
    IF runs = <<>> \/ \A i \in 1..Len(runs) : runs[i].ws THEN 0
    ELSE TextLen(runs)
             - (IF runs[1].ws THEN runs[1].n ELSE 0)
             - (IF runs[Len(runs)].ws THEN runs[Len(runs)].n ELSE 0)
TooLongText(c) == c.given /\ TrimmedLen(c.runs) >= MaxCommentLen + 1
GoodText(c) ==
    c.given /\ TrimmedLen(c.runs) >= 1 /\ TrimmedLen(c.runs) <= MaxCommentLen

CreateAnswered == resp.op = "create"

\* C4: createComment answers 400 to an empty comment, a whitespace-only
\* comment, a comment of trimmed length 501 or more, a missing film field
\* and a film field that is not an integer (a non-numeric string, a
\* fractional number), answers 404 to an integer film id with no Film row,
\* and creates no comment for any of them.  Each kind is taken with the
\* other field of the body in order; a comment is being created exactly
\* for the requests that have not answered yet.
C4_RejectsBadBodies ==
    /\ CreateAnswered =>
          /\ (HasLocalFilm(resp.film) /\
              (EmptyText(resp.comment) \/ BlankText(resp.comment)
                   \/ TooLongText(resp.comment)))
                => resp.status = HTTP_400_BAD_REQUEST
          /\ (GoodText(resp.comment) /\
              (MissingFilm(resp.film) \/ NotAnInteger(resp.film)))
                => resp.status = HTTP_400_BAD_REQUEST
          /\ (GoodText(resp.comment) /\ NoLocalFilm(resp.film))
                => resp.status = HTTP_404_NOT_FOUND
    /\ \A r \in Requests :
          r.op = "create" =>
              ~(MissingFilm(r.film) \/ NotAnInteger(r.film)) /\ GoodText(r.comment)

\* C5: createComment checks film id present and integer, then Film exists,
\* then text non-empty after trim, then trimmed length, and reports the
\* first check that fails: with a comment that is itself invalid, a missing
\* or non-integer film id is still answered 400 and an integer film id with
\* no Film row is still answered 404.
C5_FirstFailingCheckIsReported ==
    (CreateAnswered /\ ~GoodText(resp.comment)) =>
        /\ (MissingFilm(resp.film) \/ NotAnInteger(resp.film))
              => resp.status = HTTP_400_BAD_REQUEST
        /\ NoLocalFilm(resp.film) => resp.status = HTTP_404_NOT_FOUND

\* C6: in every reachable state the text of every persisted Comments row is
\* trimmed (it begins and ends with a character that is not whitespace) and
\* is 1 to 500 characters long, whatever bodies createComment was called
\* with.
C6_StoredCommentsTrimmedAndBounded ==
    \A i \in 1..Len(comments) :
        LET text == comments[i].comment
        IN  /\ text # <<>>
            /\ ~text[1].ws /\ ~text[Len(text)].ws
            /\ TextLen(text) >= 1 /\ TextLen(text) <= MaxCommentLen

\* a row of exactly 500 characters, made from a body of 502 with a blank at
\* each end, whose request has not answered yet
C6_Witness ==
    \E r \in Requests, i \in 1..Len(comments) :
        /\ r.op = "create" /\ comments[i].id = r.cid
        /\ TextLen(r.comment.runs) = MaxCommentLen + 2
        /\ r.comment.runs[1].ws
        /\ TextLen(comments[i].comment) = MaxCommentLen

\* no FilmCache row has this external identifier
NoCatalogFilm(film_id) ==
    \A i \in 1..Len(catalog) : catalog[i].film_id # PyStrOfNat(film_id)

\* C7: getFilm for an external identifier no FilmCache row has answers 404,
\* never 500, and stores nothing; nothing is ever held under 'film_{id}'
\* for such an identifier, so every later call misses and answers 404 again
\* until a sync creates the row.
C7_UnknownFilmIsNotFound ==
    /\ (resp.op = "film" /\ NoCatalogFilm(resp.id)) =>
           (resp.status = HTTP_404_NOT_FOUND /\ ~resp.wroteCache)
    /\ \A film_id \in UrlIds :
           NoCatalogFilm(film_id) => ~CacheHit(FilmKey(film_id))

\* a 404 for identifier 2 while a sync has created identifier 1 only and
\* its detail is cached
C7_Witness ==
    /\ resp.op = "film" /\ resp.id = 2 /\ resp.status = HTTP_404_NOT_FOUND
    /\ Len(catalog) = 1
    /\ CacheHit(FilmKey(1))

\* C8: a cache operation that fails never aborts the request: listFilms and
\* getFilm (of a film the catalog has) with a failing cache read still
\* answer 200, listFilms with a failing cache write still answers 200, and
\* createComment with a failing delete of 'films_list' still answers 201
\* for the comment it persisted.
C8_CacheFailureNeverAborts ==
    /\ (resp.op = "list" /\ resp.fault \in {"cache.get", "cache.set"})
           => resp.status = HTTP_200_OK
    /\ (resp.op = "film" /\ resp.fault = "cache.get"
            /\ ~NoCatalogFilm(resp.id))
           => resp.status = HTTP_200_OK
    /\ (resp.op = "create" /\ resp.fault = "cache.delete")
           => resp.status = HTTP_201_CREATED

\* C9: when the store is unreachable during a listFilms miss, the call
\* answers the generic 500 (no detail for a caller who is not staff) and
\* writes nothing: the step that answers leaves the cache as it was, so a
\* key that was absent is absent afterwards and the next call misses again.
C9_StoreFailureWritesNothing ==
    [][(resp'.op = "list" /\ resp'.fault = "store") =>
          /\ resp'.status = HTTP_500_INTERNAL_SERVER_ERROR
          /\ resp'.detail = "Internal server error"
          /\ ~resp'.wroteCache
          /\ cache' = cache]_vars

\* the 500 of a failed read of a table that holds films, with 'films_list'
\* absent afterwards
C9_Witness ==
    /\ resp.op = "list" /\ resp.fault = "store"
    /\ resp.status = HTTP_500_INTERNAL_SERVER_ERROR
    /\ catalog # <<>>
    /\ ~CacheHit(FILMS_CACHE_KEY)

\* the number of Comments rows of the Film of least id among those of this
\* title; 0 when no Film has the title
ExpectedCount(title) ==
    LET ids == {f.id : f \in {g \in localFilms : g.title = title}}
    IN  IF ids = {} THEN 0
        ELSE LET first == CHOOSE m \in ids : \A k \in ids : m <= k
             IN  Cardinality({i \in DOMAIN comments : comments[i].film = first})

\* a list request that this step brought to pc
Arrives(q, pc) ==
    /\ q.op = "list" /\ q.pc = pc
    /\ CopiesIn(q, reqs') > CopiesIn(q, reqs)

\* C10: the comment count of a FilmView is the number of Comments of the
\* first Film whose title equals the FilmCache row's title, 0 when no Film
\* matches and 0 when the lookup or the count fails; such a failure leaves
\* the status of listFilms and getFilm at 200, and the value computed is
\* the value cached and returned.  Stated of the step that reads the store
\* (the count is the count of that moment), of the step that caches and of
\* the step that answers.
C10_CommentCountOfFirstFilmByTitle ==
    [][/\ \A q \in BagToSet(reqs') :
             Arrives(q, "list_set") =>
                 \A i \in 1..Len(q.snap) :
                     q.snap[i].comment_count =
                         IF q.snap[i].id \in q.failing THEN 0
                         ELSE ExpectedCount(q.snap[i].title)
       /\ \A q \in BagToSet(reqs') :
             Arrives(q, "list_return") =>
                 /\ cache'[FILMS_CACHE_KEY].present
                 /\ cache'[FILMS_CACHE_KEY].val = q.snap
       /\ \A r \in Requests :
             (r.op = "list" /\ r.pc = "list_return"
                  /\ CopiesIn(r, reqs') < CopiesIn(r, reqs)) =>
                 (resp'.status = HTTP_200_OK /\ resp'.data = r.snap)
       /\ (resp'.op = "film" /\ resp'.readStore /\ resp'.wroteCache) =>
             /\ resp'.status = HTTP_200_OK
             /\ resp'.data.comment_count =
                   IF resp'.countFailed THEN 0
                   ELSE ExpectedCount(resp'.data.title)
             /\ cache'[FilmKey(resp'.id)].present
             /\ cache'[FilmKey(resp'.id)].val = resp'.data
       /\ (resp'.op = "film" /\ resp'.countFailed) =>
             resp'.status = HTTP_200_OK
      ]_vars

\* getFilm answered 200 with count 0 because the count failed, cached, for
\* a film whose first Film of the title has a comment and whose second has
\* one too
C10_Witness ==
    /\ resp.op = "film" /\ resp.countFailed /\ resp.status = HTTP_200_OK
    /\ resp.data.comment_count = 0
    /\ cache[FilmKey(resp.id)].val = resp.data
    /\ ExpectedCount(resp.data.title) = 1
    /\ Len(comments) = 2

\* C11: createComment leaves every key 'film_{id}' as it was: neither the
\* step that persists the comment nor the step that deletes 'films_list'
\* and answers changes one, and a getFilm that hits returns the value that
\* was cached, whatever comments were created since.
C11_CreateLeavesFilmKeys ==
    [][/\ (nextCommentId' # nextCommentId \/ resp'.op = "create") =>
             \A film_id \in UrlIds :
                 cache'[FilmKey(film_id)] = cache[FilmKey(film_id)]
       /\ (resp'.op = "film" /\ resp'.status = HTTP_200_OK
               /\ ~resp'.readStore) =>
             /\ cache[FilmKey(resp'.id)].present
             /\ resp'.data = cache[FilmKey(resp'.id)].val
      ]_vars

\* getFilm answered from the cache with count 0 after a comment on the
\* first Film of the title was created and acknowledged
C11_Witness ==
    /\ resp.op = "film" /\ resp.status = HTTP_200_OK /\ ~resp.readStore
    /\ resp.data.comment_count = 0
    /\ ExpectedCount(resp.data.title) >= 1
    /\ acked >= 1

\* a list of film dicts without the comment counts
WithoutCounts(films) ==
    [i \in 1..Len(films) |->
        [id |-> films[i].id, title |-> films[i].title,
         release_date |-> films[i].release_date]]

\* C12: a sync run that completes deletes 'films_list' after its last
\* upsert, so a listFilms call that starts after the run has completed is
\* answered with the films of the FilmCache table as the run left them,
\* also when listFilms requests ran during the sync.  Stated of the calls
\* answered from the cache with a list listFilms computed, when the one
\* sync run is over.
C12_ListAfterSyncReflectsCatalog ==
    (ListAnswered /\ ~resp.readStore /\ resp.by = "list"
         /\ syncRuns >= 1 /\ sync.pc = "idle") =>
        WithoutCounts(resp.data) =
            WithoutCounts(FilmsData(catalog, localFilms, comments, {}))

\* the rows of the FilmCache table with external identifier str(k)
RowsOfPosition(k) ==
    {i \in 1..Len(catalog) : catalog[i].film_id = PyStrOfNat(k)}

\* C13: for a fetched sequence of n records a sync run upserts the record
\* at position k under the external identifier str(k), external
\* identifiers stay unique in the FilmCache table, and the counts the run
\* reports satisfy created + updated = n with created the number of
\* positions whose identifier did not exist before the run.  Stated of
\* every point of a run, after k records (the report is made from the
\* counters as they are after the last record, k = n).
C13_SyncUpsertsByPosition ==
    /\ \A i, j \in 1..Len(catalog) :
           catalog[i].film_id = catalog[j].film_id => i = j
    /\ sync.pc = "upsert" =>
           /\ \A k \in 1..sync.k :
                  /\ Cardinality(RowsOfPosition(k)) = 1
                  /\ \A i \in RowsOfPosition(k) :
                         /\ catalog[i].title = sync.feed[k].title
                         /\ catalog[i].release_date = sync.feed[k].release_date
           /\ sync.created + sync.updated = sync.k
           /\ sync.created =
                  Cardinality({k \in 1..sync.k : PyStrOfNat(k) \notin sync.before})

\* the end of a second run, of two records, on a table the first run left
\* with one row: one created, one updated
C13_Witness ==
    /\ sync.pc = "upsert" /\ sync.k = Len(sync.feed) /\ Len(sync.feed) = 2
    /\ sync.before = {PyStrOfNat(1)}
    /\ sync.created = 1 /\ sync.updated = 1

\* the list a listFilms call computes from the store as it is: one entry
\* per FilmCache row with the count of its title, in release date order
IsListOfStore(films) ==
    /\ Len(films) = Len(catalog)
    /\ SortedByReleaseDate(films)
    /\ \A i \in 1..Len(catalog) :
           \E j \in 1..Len(films) :
               films[j] = [id |-> catalog[i].id, title |-> catalog[i].title,
                           release_date |-> catalog[i].release_date,
                           comment_count |-> ExpectedCount(catalog[i].title)]

\* the list requests that have computed their list
Computed == {r \in Requests : r.op = "list" /\ r.pc \in {"list_set", "list_return"}}

\* C14: listFilms requests that run concurrently on a cold cache, with no
\* comment creation, sync or other store write during them, all compute
\* the same list in every interleaving, each is answered with it and it is
\* the value left under 'films_list': the list a single request computes
\* from that store.
C14_ColdCacheRaceIsHarmless ==
    /\ \A r \in Computed :
           /\ IsListOfStore(r.snap)
           /\ \A q \in Computed : q.snap = r.snap
           /\ CacheHit(FILMS_CACHE_KEY) => cache[FILMS_CACHE_KEY].val = r.snap
    /\ CacheHit(FILMS_CACHE_KEY) => IsListOfStore(cache[FILMS_CACHE_KEY].val)
    /\ ListAnswered =>
           /\ IsListOfStore(resp.data)
           /\ CacheHit(FILMS_CACHE_KEY)
           /\ cache[FILMS_CACHE_KEY].val = resp.data

\* two requests that both missed, both computed the list of two films, one
\* with a comment, and both wrote it
C14_Witness ==
    \E r \in Requests :
        /\ r.op = "list" /\ r.pc = "list_return" /\ CopiesIn(r, reqs) = 2
        /\ Len(r.snap) = 2
        /\ \E i \in 1..2 : r.snap[i].comment_count >= 1

\* C15: for a caller who is not staff the body of a failure response of
\* any endpoint does not depend on the message of the exception: its
\* detail is the fixed "Internal server error" and no field of it is the
\* message.
C15_FailureBodyHidesMessage ==
    (resp.fault # "" /\ ~resp.staff) =>
        /\ resp.detail = "Internal server error"
        /\ resp.error \notin ErrMsgs

C17_CommentsReferenceExistingFilm ==
    /\ \A k \in 1..Len(comments) :
           \E f \in localFilms : f.id = comments[k].film
    /\ (resp.op = "comments" /\ ~\E f \in localFilms : f.id = resp.id) =>
           resp.status = HTTP_404_NOT_FOUND /\ resp.data = <<>>
    /\ (resp.op = "create" /\ NoLocalFilm(resp.film)) =>
           \/ resp.status = HTTP_404_NOT_FOUND
           \/ /\ resp.status = HTTP_201_CREATED
              /\ resp.id < nextCommentId
              /\ \A k \in 1..Len(comments) : comments[k].id # resp.id

\* one of the two Films was deleted with its comments, and listComments
\* answers 404 for it
C17_Witness ==
    /\ resp.op = "comments" /\ resp.status = HTTP_404_NOT_FOUND
    /\ resp.id \in {f.id : f \in InitFilms}
    /\ Cardinality(localFilms) = 1
    /\ Len(comments) < nextCommentId - 1

\* the list under 'films_list' is not the list of the store
StaleList ==
    CacheHit(FILMS_CACHE_KEY) /\ ~IsListOfStore(cache[FILMS_CACHE_KEY].val)

C19_CreateChangesStateOnlyOn201 ==
    [][resp'.op = "create" =>
          IF resp'.status = HTTP_201_CREATED
          THEN resp'.id \in 1..(nextCommentId' - 1)
          ELSE /\ resp'.id = 0
               /\ comments' = comments
               /\ cache' = cache]_vars

\* C20: the id of every entry of a listFilms response is the identifier
\* getFilm accepts for the same film: with no sync run since the list was
\* answered, getFilm of that id answers 200 with the entry's id, title and
\* release date.
C20_ListIdIsTheIdGetFilmAccepts ==
    (resp.op = "film" /\ lastList.some) =>
        \A i \in 1..Len(lastList.data) :
            lastList.data[i].id = resp.id =>
                /\ resp.status = HTTP_200_OK
                /\ resp.data.id = lastList.data[i].id
                /\ resp.data.title = lastList.data[i].title
                /\ resp.data.release_date = lastList.data[i].release_date

\* C21: the warm step goes on to write 'films_list' only when its cache.get
\* found the key absent; what it computes is the list of the store it
\* read, the value a listFilms miss computes from that store, and it
\* writes that value under 'films_list' with the TTL of 600 seconds and
\* touches no other key; a warm step that fails leaves the cache as it was.
C21_WarmWritesTheListOfAMiss ==
    [][warm' # warm =>
          /\ (warm.pc = "init" /\ warm'.pc # "failed") =>
                 /\ warm'.pc = (IF CacheHit(FILMS_CACHE_KEY) THEN "done"
                                ELSE "read")
                 /\ cache' = cache
          /\ warm.pc = "read" => cache' = cache
          /\ warm'.pc = "set" =>
                 /\ warm.pc = "read"
                 /\ catalog # <<>>
                 /\ IsListOfStore(warm'.snap)
          /\ warm'.pc = "read" => warm.pc = "init"
          /\ cache' # cache =>
                 /\ warm.pc = "set" /\ warm'.pc = "done"
                 /\ cache' = [cache EXCEPT ![FILMS_CACHE_KEY] =
                                  [present |-> TRUE, val |-> warm.snap,
                                   ttl |-> CACHE_TTL, by |-> "warm"]]
          /\ warm'.pc = "failed" => cache' = cache]_vars

\* the warm step has written a list that counts a comment
C21_Witness ==
    /\ warm.pc = "done"
    /\ CacheHit(FILMS_CACHE_KEY) /\ cache[FILMS_CACHE_KEY].by = "warm"
    /\ \E i \in 1..Len(cache[FILMS_CACHE_KEY].val) :
           cache[FILMS_CACHE_KEY].val[i].comment_count >= 1

\* the FilmCache table holds the fetched sequence of the run: one row per
\* position, with the record of that position
TableHoldsFeed ==
    \A k \in 1..Len(sync.feed) :
        /\ Cardinality(RowsOfPosition(k)) = 1
        /\ \A i \in RowsOfPosition(k) :
               /\ catalog[i].title = sync.feed[k].title
               /\ catalog[i].release_date = sync.feed[k].release_date

\* a run on a table that held its fetched sequence when it began, which is
\* how a run on that sequence leaves the table
RepeatedRun ==
    /\ sync.pc = "upsert" /\ TableHoldsFeed
    /\ sync.created = 0 /\ sync.updated = sync.k

\* C22: a sync run on the sequence the table already holds creates no row,
\* counts every record as updated (0 created and n updated after the last
\* of n records) and leaves every row's external identifier, title and
\* release date as they were; a sync whose fetch fails changes neither the
\* FilmCache table nor the cache.
C22_SyncIsIdempotent ==
    [][/\ (RepeatedRun /\ sync'.pc = "upsert") =>
              /\ catalog' = catalog
              /\ sync'.created = 0
              /\ sync'.updated = sync'.k
              /\ sync'.k \in {sync.k, sync.k + 1}
       /\ (sync.pc = "idle" /\ sync'.pc = "idle" /\ syncRuns' # syncRuns) =>
              /\ catalog' = catalog
              /\ cache' = cache]_vars

\* the end of a second run of two records on a table that held both: none
\* created, two updated
C22_Witness ==
    /\ syncRuns = 2 /\ RepeatedRun
    /\ Len(sync.feed) = 2 /\ sync.k = 2
    /\ sync.before = {PyStrOfNat(1), PyStrOfNat(2)}

====
